---- MODULE Spec2Model ----
(***************************************************************************)
(* Delta-Bar-Delta update policy for gradient descent                      *)
(* (ensmallen_bits/delta_bar_delta): the hyperparameter holder             *)
(* DeltaBarDeltaUpdate, its per-run Policy (delta_bar, epsilon) and        *)
(* Policy::Update.                                                         *)
(*                                                                         *)
(* Numbers.  ElemType is a finite-precision type.  A value of ElemType is  *)
(* modelled by the integer number of units of 1/Scale it holds; a product  *)
(* is rounded to the nearest unit, ties to even, as IEEE-754 rounds, so a  *)
(* product of two small non-zero values can round to zero.  Sums and       *)
(* differences of values within the bounds are exact.  The holder keeps    *)
(* doubles, modelled DFactor times finer than ElemType.                    *)
(***************************************************************************)
EXTENDS Integers, FiniteSets, Sequences, TLC

VARIABLES holder, pol, iterate, ghost, writes

vars == <<holder, pol, iterate, ghost, writes>>

(***************************************************************************)
(* Bounds of the model.                                                    *)
(***************************************************************************)
MaxSteps == 3

(***************************************************************************)
(* Element type arithmetic.                                                *)
(***************************************************************************)
Scale == 1000

DFactor == 4

One == Scale

Abs(x) == IF x < 0 THEN 0 - x ELSE x

Max(a, b) == IF a >= b THEN a ELSE b

\* n / d rounded to the nearest integer, ties to even (d > 0).
RoundDiv(n, d) ==
  LET q == n \div d
      r == n % d
  IN  IF 2 * r < d THEN q
      ELSE IF 2 * r > d THEN q + 1
      ELSE IF q % 2 = 0 THEN q ELSE q + 1

\* ElemType product (operator % on matrices, operator * by a scalar).
Mul(a, b) == RoundDiv(a * b, Scale)

\* ElemType(double): narrowing conversion of a holder value.
ToElem(d) == RoundDiv(d, DFactor)

\* The double holding an ElemType grid value exactly.
D(v) == v * DFactor

\* arma::sign, elementwise.
Sign(x) == IF x > 0 THEN 1 ELSE IF x < 0 THEN 0 - 1 ELSE 0

(***************************************************************************)
(* Matrices: functions over the index pairs of a rows x cols shape.        *)
(***************************************************************************)
Elems(rows, cols) == (1..rows) \X (1..cols)

Zeros(rows, cols) == [e \in Elems(rows, cols) |-> 0]

Filled(rows, cols, v) == [e \in Elems(rows, cols) |-> v]

Runs == {1, 2}

(***************************************************************************)
(* DeltaBarDeltaUpdate: the hyperparameter holder.                         *)
(***************************************************************************)
DeltaBarDeltaUpdate(initialStepSize, kappa, phi, theta, minStepSize) ==
  [initialStepSize |-> initialStepSize, kappa |-> kappa, phi |-> phi,
   theta |-> theta, minStepSize |-> minStepSize]

\* double& Kappa() and the other modifying accessors: assignment through
\* the returned reference.
SetInitialStepSize(v) ==
  /\ holder' = [holder EXCEPT !.initialStepSize = v]
  /\ writes' = writes + 1
  /\ UNCHANGED <<pol, iterate, ghost>>

SetKappa(v) ==
  /\ holder' = [holder EXCEPT !.kappa = v]
  /\ writes' = writes + 1
  /\ UNCHANGED <<pol, iterate, ghost>>

SetPhi(v) ==
  /\ holder' = [holder EXCEPT !.phi = v]
  /\ writes' = writes + 1
  /\ UNCHANGED <<pol, iterate, ghost>>

SetTheta(v) ==
  /\ holder' = [holder EXCEPT !.theta = v]
  /\ writes' = writes + 1
  /\ UNCHANGED <<pol, iterate, ghost>>

SetMinStepSize(v) ==
  /\ holder' = [holder EXCEPT !.minStepSize = v]
  /\ writes' = writes + 1
  /\ UNCHANGED <<pol, iterate, ghost>>

(***************************************************************************)
(* DeltaBarDeltaUpdate::Policy.                                            *)
(***************************************************************************)
\* A run whose Policy has not been constructed yet.
NoPolicy ==
  [live |-> FALSE, kappa |-> 0, phi |-> 0, theta |-> 0, minStepSize |-> 0,
   delta_bar |-> Zeros(0, 0), epsilon |-> Zeros(0, 0)]

\* Policy(parent, rows, cols).
Policy(parent, rows, cols) ==
  [live |-> TRUE,
   kappa |-> ToElem(parent.kappa),
   phi |-> ToElem(parent.phi),
   theta |-> ToElem(parent.theta),
   minStepSize |-> ToElem(parent.minStepSize),
   delta_bar |-> Zeros(rows, cols),
   epsilon |-> Filled(rows, cols, ToElem(parent.initialStepSize))]

\* Variant: the sign of the gradient alone.
SignMatrixGradientOnly(delta, delta_bar) ==
  [e \in DOMAIN delta |-> Sign(delta[e])]

\* signMatrix = sign(delta % delta_bar)
SignMatrix(delta, delta_bar) ==
  [e \in DOMAIN delta |-> Sign(Mul(delta[e], delta_bar[e]))]

\* Variant: an exact-zero product counted as agreement.
SameSignMaskTie(signMatrix) ==
  [e \in DOMAIN signMatrix |-> IF signMatrix[e] >= 0 THEN One ELSE 0]

\* conv_to<MatType>::from(signMatrix == +1)
SameSignMask(signMatrix) ==
  [e \in DOMAIN signMatrix |-> IF signMatrix[e] = 1 THEN One ELSE 0]

\* Variant: an exact-zero product counted as disagreement.
DiffSignMaskTie(signMatrix) ==
  [e \in DOMAIN signMatrix |-> IF signMatrix[e] <= 0 THEN One ELSE 0]

\* conv_to<MatType>::from(signMatrix == -1)
DiffSignMask(signMatrix) ==
  [e \in DOMAIN signMatrix |-> IF signMatrix[e] = 0 - 1 THEN One ELSE 0]

\* Variant: the bounds of the clamp swapped (an upper bound of minStepSize).
ClampSwapped(m, lo) == [e \in DOMAIN m |-> IF m[e] <= lo THEN m[e] ELSE lo]

\* epsilon.clamp(minStepSize, inf)
Clamp(m, lo) == [e \in DOMAIN m |-> Max(m[e], lo)]

\* Variant: the decay statement delta_bar *= theta left out.
NewDeltaBarNoDecay(p, delta) ==
  [e \in DOMAIN delta |-> p.delta_bar[e] + Mul(One - p.theta, delta[e])]

\* delta_bar *= theta; delta_bar += (1 - theta) * delta
NewDeltaBar(p, delta) ==
  LET decayed == [e \in DOMAIN delta |-> Mul(p.delta_bar[e], p.theta)]
  IN  [e \in DOMAIN delta |-> decayed[e] + Mul(One - p.theta, delta[e])]

\* Variant: the moving average updated before the sign test, which then
\* reads the new delta_bar.
NewEpsilonAfterAverage(p, delta) ==
  LET signMatrix   == SignMatrix(delta, NewDeltaBar(p, delta))
      sameSignMask == SameSignMask(signMatrix)
      diffSignMask == DiffSignMask(signMatrix)
      inc == [e \in DOMAIN delta |-> p.epsilon[e] + Mul(sameSignMask[e], p.kappa)]
      dec == [e \in DOMAIN delta |-> inc[e] - Mul(Mul(diffSignMask[e], p.phi), inc[e])]
  IN  Clamp(dec, p.minStepSize)

\* The three statements that adjust epsilon: += sameSignMask * kappa,
\* -= diffSignMask * phi % epsilon, clamp.
NewEpsilon(p, delta) ==
  LET signMatrix   == SignMatrix(delta, p.delta_bar)
      sameSignMask == SameSignMask(signMatrix)
      diffSignMask == DiffSignMask(signMatrix)
      inc == [e \in DOMAIN delta |-> p.epsilon[e] + Mul(sameSignMask[e], p.kappa)]
      dec == [e \in DOMAIN delta |-> inc[e] - Mul(Mul(diffSignMask[e], p.phi), inc[e])]
  IN  Clamp(dec, p.minStepSize)

\* iterate -= epsilon % delta
NewIterate(x, epsilon, delta) ==
  [e \in DOMAIN delta |-> x[e] - Mul(epsilon[e], delta[e])]

\* The Policy after Update(iterate, stepSize, delta); stepSize is not read.
PolicyUpdate(p, stepSize, delta) ==
  [p EXCEPT !.epsilon = NewEpsilon(p, delta),
            !.delta_bar = NewDeltaBar(p, delta)]

\* Variant: the step taken with the epsilon of the previous iteration.
IterateUpdateStale(p, x, stepSize, delta) ==
  NewIterate(x, p.epsilon, delta)

\* The iterate after Update(iterate, stepSize, delta).
IterateUpdate(p, x, stepSize, delta) ==
  NewIterate(x, PolicyUpdate(p, stepSize, delta).epsilon, delta)

\* Variant: kappa, phi, theta and minStepSize read through the parent
\* reference at each call instead of from the Policy's own members.
SelfThroughParent(r) ==
  [pol[r] EXCEPT !.kappa = ToElem(holder.kappa),
                 !.phi = ToElem(holder.phi),
                 !.theta = ToElem(holder.theta),
                 !.minStepSize = ToElem(holder.minStepSize)]

\* The members of run r's Policy, as Update reads them.
Self(r) == pol[r]

(***************************************************************************)
(* History kept for stating the properties: the holder as it was when the  *)
(* Policy was constructed and as it was at the last Update, the iterate    *)
(* the run started from, the gradients passed so far, and what Update      *)
(* found on its last call.  writes counts the holder's setter calls.       *)
(***************************************************************************)
NoGhost ==
  [born |-> DeltaBarDeltaUpdate(0, 0, 0, 0, 0),
   seen |-> DeltaBarDeltaUpdate(0, 0, 0, 0, 0),
   shape |-> <<0, 0>>, x0 |-> Zeros(0, 0), deltas |-> <<>>,
   pre |-> [epsilon |-> Zeros(0, 0), delta_bar |-> Zeros(0, 0),
            iterate |-> Zeros(0, 0)]]

\* The optimizer starts run r on the iterate x0: it instantiates the Policy
\* with the iterate's shape.
Construct(r, rows, cols, x0) ==
  /\ ~pol[r].live
  /\ pol' = [pol EXCEPT ![r] = Policy(holder, rows, cols)]
  /\ iterate' = [iterate EXCEPT ![r] = x0]
  /\ ghost' = [ghost EXCEPT ![r] =
       [born |-> holder, seen |-> holder, shape |-> <<rows, cols>>, x0 |-> x0,
        deltas |-> <<>>,
        pre |-> [epsilon |-> Policy(holder, rows, cols).epsilon,
                 delta_bar |-> Zeros(rows, cols), iterate |-> x0]]]
  /\ UNCHANGED <<holder, writes>>

\* Policy::Update(iterate, stepSize, delta) of run r.
Update(r, stepSize, delta) ==
  /\ pol[r].live
  /\ DOMAIN delta = DOMAIN pol[r].epsilon
  /\ pol' = [pol EXCEPT ![r] = PolicyUpdate(Self(r), stepSize, delta)]
  /\ iterate' = [iterate EXCEPT ![r] =
       IterateUpdate(Self(r), iterate[r], stepSize, delta)]
  /\ ghost' = [ghost EXCEPT ![r] =
       [born |-> ghost[r].born, seen |-> holder, shape |-> ghost[r].shape,
        x0 |-> ghost[r].x0,
        deltas |-> Append(ghost[r].deltas, delta),
        pre |-> [epsilon |-> pol[r].epsilon, delta_bar |-> pol[r].delta_bar,
                 iterate |-> iterate[r]]]]
  /\ UNCHANGED <<holder, writes>>

NumUpdates(r) == Len(ghost[r].deltas)

LastDelta(r) == ghost[r].deltas[Len(ghost[r].deltas)]

(***************************************************************************)
(* Spec: one run on a 1 x 2 iterate, hyperparameters and gradients drawn   *)
(* from small sets.                                                        *)
(***************************************************************************)
Small == Scale \div 100

GradValues == {0 - One, 0 - Small, 0, Small, One}

Gradients(rows, cols) == [Elems(rows, cols) -> GradValues]

Holders ==
  {DeltaBarDeltaUpdate(D(i), D(k), D(f), D(t), D(m)) :
     i \in {One \div 10, One \div 50}, k \in {One \div 5},
     f \in {One \div 2}, t \in {One \div 2, (3 * One) \div 4},
     m \in {One \div 25}}

Init ==
  /\ holder \in Holders
  /\ pol = [r \in Runs |-> NoPolicy]
  /\ iterate = [r \in Runs |-> Zeros(0, 0)]
  /\ ghost = [r \in Runs |-> NoGhost]
  /\ writes = 0

Next ==
  \/ Construct(1, 1, 2, Filled(1, 2, One))
  \/ \E delta \in Gradients(1, 2) :
       /\ NumUpdates(1) < MaxSteps
       /\ Update(1, ToElem(holder.initialStepSize), delta)

Spec == Init /\ [][Next]_vars

(***************************************************************************)
(* SpecShared: one holder backing two runs on 1 x 1 iterates, with the     *)
(* holder's setters called between and during the runs.                    *)
(***************************************************************************)
MaxWrites == 1

MaxSharedSteps == 2

SharedHolder ==
  DeltaBarDeltaUpdate(D(One \div 10), D(One \div 5), D(One \div 2),
                      D(One \div 2), D(One \div 25))

InitialStepSizes == {D(One \div 10), D(One \div 50)}

Kappas == {D(One \div 5), D(One \div 10) + 1}

Phis == {D(One \div 2), D(One \div 4)}

Thetas == {D(One \div 2), D((3 * One) \div 4)}

MinStepSizes == {D(One \div 25), D(One \div 100)}

InitShared ==
  /\ holder = SharedHolder
  /\ pol = [r \in Runs |-> NoPolicy]
  /\ iterate = [r \in Runs |-> Zeros(0, 0)]
  /\ ghost = [r \in Runs |-> NoGhost]
  /\ writes = 0

NextShared ==
  \/ \E v \in InitialStepSizes : writes < MaxWrites /\ SetInitialStepSize(v)
  \/ \E v \in Kappas : writes < MaxWrites /\ SetKappa(v)
  \/ \E v \in Phis : writes < MaxWrites /\ SetPhi(v)
  \/ \E v \in Thetas : writes < MaxWrites /\ SetTheta(v)
  \/ \E v \in MinStepSizes : writes < MaxWrites /\ SetMinStepSize(v)
  \/ \E r \in Runs : Construct(r, 1, 1, Filled(1, 1, One))
  \/ \E r \in Runs, g \in {0 - One, One} :
       /\ NumUpdates(r) < MaxSharedSteps
       /\ Update(r, ToElem(holder.initialStepSize), Filled(1, 1, g))

SpecShared == InitShared /\ [][NextShared]_vars

(***************************************************************************)
(* SpecBowl: gradient descent on f(x) = x^2 with kappa = 0.2, phi = 0.5,   *)
(* theta = 0.5, initialStepSize = 0.1; minStepSize = 1e-8 is below the     *)
(* resolution of the model's ElemType and converts to 0 (epsilon only      *)
(* grows in this run, the floor is never met).                             *)
(***************************************************************************)
MaxBowlSteps == 10

BowlHolder ==
  DeltaBarDeltaUpdate(D(One \div 10), D(One \div 5), D(One \div 2),
                      D(One \div 2), 0)

BowlStarts == {n * One : n \in 1..12}

\* The gradient of f(x) = x^2.
BowlGradient(x) == [e \in DOMAIN x |-> 2 * x[e]]

\* One iteration of the optimizer: the gradient at the current iterate,
\* then Update.
BowlStep ==
  /\ NumUpdates(1) < MaxBowlSteps
  /\ Update(1, ToElem(holder.initialStepSize), BowlGradient(iterate[1]))

InitBowl ==
  /\ holder = BowlHolder
  /\ pol = [r \in Runs |-> NoPolicy]
  /\ iterate = [r \in Runs |-> Zeros(0, 0)]
  /\ ghost = [r \in Runs |-> NoGhost]
  /\ writes = 0

NextBowl ==
  \/ \E x \in BowlStarts : Construct(1, 1, 1, Filled(1, 1, x))
  \/ BowlStep

SpecBowl == InitBowl /\ [][NextBowl]_vars

(***************************************************************************)
(* SpecOsc: a 2-parameter run; the gradient of element <<1, 1>> flips sign *)
(* on every iteration, that of element <<1, 2>> keeps its sign and         *)
(* magnitude.                                                              *)
(***************************************************************************)
MaxOscSteps == 10

OscElem == <<1, 1>>

ConstElem == <<1, 2>>

OscMagnitudes == {One, 4 * One}

ConstMagnitudes == {Small, One}

OscHolders ==
  {DeltaBarDeltaUpdate(D(One \div 10), D(One \div 5), D(One \div 2), D(t), 0) :
     t \in {One \div 2, (3 * One) \div 4}}

\* The gradients the problem can produce next in run r.
OscGradients(r) ==
  IF NumUpdates(r) = 0
    THEN {[e \in Elems(1, 2) |-> IF e = OscElem THEN s * m ELSE c] :
            s \in {0 - 1, 1}, m \in OscMagnitudes,
            c \in {t * n : t \in {0 - 1, 1}, n \in ConstMagnitudes}}
    ELSE {[e \in Elems(1, 2) |->
             IF e = OscElem THEN (0 - Sign(LastDelta(r)[OscElem])) * m
                            ELSE LastDelta(r)[ConstElem]] :
            m \in OscMagnitudes}

OscStep(delta) ==
  /\ NumUpdates(1) < MaxOscSteps
  /\ Update(1, ToElem(holder.initialStepSize), delta)

InitOsc ==
  /\ holder \in OscHolders
  /\ pol = [r \in Runs |-> NoPolicy]
  /\ iterate = [r \in Runs |-> Zeros(0, 0)]
  /\ ghost = [r \in Runs |-> NoGhost]
  /\ writes = 0

NextOsc ==
  \/ Construct(1, 1, 2, Filled(1, 2, One))
  \/ \E delta \in OscGradients(1) : OscStep(delta)

SpecOsc == InitOsc /\ [][NextOsc]_vars

(***************************************************************************)
(* Properties of Update, stated on the state after a call: ghost[r].pre is *)
(* what the call found, LastDelta(r) the gradient it was given.            *)
(***************************************************************************)
Updated(r) == pol[r].live /\ NumUpdates(r) > 0

IsZero(delta) == \A e \in DOMAIN delta : delta[e] = 0

\* C1. Floor invariant: after every Update, every epsilon[i,j] is at least
\* minStepSize, whatever the gradients were.
C1_Floor ==
  \A r \in Runs : Updated(r) =>
    \A e \in DOMAIN pol[r].epsilon : pol[r].epsilon[e] >= pol[r].minStepSize

\* A third Update whose multiplicative decrease went below the floor and was
\* clamped back to it.
C1_Witness ==
  /\ Updated(1)
  /\ \E e \in DOMAIN pol[1].epsilon :
       /\ Sign(Mul(LastDelta(1)[e], ghost[1].pre.delta_bar[e])) = 0 - 1
       /\ ghost[1].pre.epsilon[e] - Mul(pol[1].phi, ghost[1].pre.epsilon[e])
            < pol[1].minStepSize
       /\ pol[1].epsilon[e] = pol[1].minStepSize

\* C2 as stated. Sign agreement: where gradient and pre-update delta_bar are
\* both strictly positive or both strictly negative, epsilon after Update is
\* max(epsilon_before + kappa, minStepSize).
C2_AsStated ==
  \A r \in Runs : Updated(r) =>
    \A e \in DOMAIN pol[r].epsilon :
      (\/ LastDelta(r)[e] > 0 /\ ghost[r].pre.delta_bar[e] > 0
       \/ LastDelta(r)[e] < 0 /\ ghost[r].pre.delta_bar[e] < 0)
      => pol[r].epsilon[e] =
           Max(ghost[r].pre.epsilon[e] + pol[r].kappa, pol[r].minStepSize)

\* C3 as stated. Sign disagreement: where gradient and pre-update delta_bar
\* are non-zero and of different sign, epsilon after Update is
\* max(epsilon_before - phi * epsilon_before, minStepSize), with no kappa
\* increment.
C3_AsStated ==
  \A r \in Runs : Updated(r) =>
    \A e \in DOMAIN pol[r].epsilon :
      (\/ LastDelta(r)[e] > 0 /\ ghost[r].pre.delta_bar[e] < 0
       \/ LastDelta(r)[e] < 0 /\ ghost[r].pre.delta_bar[e] > 0)
      => pol[r].epsilon[e] =
           Max(ghost[r].pre.epsilon[e]
                 - Mul(pol[r].phi, ghost[r].pre.epsilon[e]),
               pol[r].minStepSize)

\* C4 as stated. Zero tie-break: where the product gradient * delta_bar is
\* exactly zero, Update makes no change to epsilon; the first Update of a
\* fresh Policy leaves every epsilon equal to the initial step size.
C4_AsStated ==
  \A r \in Runs : Updated(r) =>
    \A e \in DOMAIN pol[r].epsilon :
      /\ Mul(LastDelta(r)[e], ghost[r].pre.delta_bar[e]) = 0
           => pol[r].epsilon[e] = ghost[r].pre.epsilon[e]
      /\ NumUpdates(r) = 1
           => pol[r].epsilon[e] = ToElem(ghost[r].born.initialStepSize)

\* C4 amended. Where the product gradient * delta_bar is exactly zero,
\* neither kappa nor phi is applied and only the clamp acts: epsilon becomes
\* max(epsilon_before, minStepSize); the first Update of a fresh Policy
\* leaves every epsilon at max(initialStepSize, minStepSize).
C4_ZeroTieBreak ==
  \A r \in Runs : Updated(r) =>
    \A e \in DOMAIN pol[r].epsilon :
      /\ Mul(LastDelta(r)[e], ghost[r].pre.delta_bar[e]) = 0
           => pol[r].epsilon[e] =
                Max(ghost[r].pre.epsilon[e], pol[r].minStepSize)
      /\ NumUpdates(r) = 1
           => pol[r].epsilon[e] =
                Max(ToElem(ghost[r].born.initialStepSize), pol[r].minStepSize)

\* A later Update with a non-zero delta_bar and a zero gradient element, next
\* to an element that was adjusted in the same call.
C4_Witness ==
  /\ Updated(1)
  /\ NumUpdates(1) > 1
  /\ \E e, f \in DOMAIN pol[1].epsilon :
       /\ LastDelta(1)[e] = 0
       /\ ghost[1].pre.delta_bar[e] # 0
       /\ pol[1].epsilon[e] = ghost[1].pre.epsilon[e]
       /\ pol[1].epsilon[f] # ghost[1].pre.epsilon[f]

\* C5 as stated. Zero gradient: iterate unchanged, epsilon unchanged in every
\* element and, for theta < 1, every delta_bar strictly decreases in
\* absolute value.
C5_AsStated ==
  \A r \in Runs : (Updated(r) /\ IsZero(LastDelta(r))) =>
    \A e \in DOMAIN pol[r].epsilon :
      /\ iterate[r][e] = ghost[r].pre.iterate[e]
      /\ pol[r].epsilon[e] = ghost[r].pre.epsilon[e]
      /\ pol[r].theta < One
           => Abs(pol[r].delta_bar[e]) < Abs(ghost[r].pre.delta_bar[e])

\* C5 amended. Zero gradient: iterate unchanged; epsilon changed by the
\* clamp alone; every delta_bar moves toward zero without crossing it: a
\* zero stays zero, a magnitude never grows, and a non-zero magnitude
\* strictly shrinks when theta <= 1/2.
C5_ZeroGradient ==
  \A r \in Runs : (Updated(r) /\ IsZero(LastDelta(r))) =>
    \A e \in DOMAIN pol[r].epsilon :
      /\ iterate[r][e] = ghost[r].pre.iterate[e]
      /\ pol[r].epsilon[e] = Max(ghost[r].pre.epsilon[e], pol[r].minStepSize)
      /\ Abs(pol[r].delta_bar[e]) <= Abs(ghost[r].pre.delta_bar[e])
      /\ pol[r].delta_bar[e] * ghost[r].pre.delta_bar[e] >= 0
      /\ ghost[r].pre.delta_bar[e] = 0 => pol[r].delta_bar[e] = 0
      /\ (ghost[r].pre.delta_bar[e] # 0 /\ 2 * pol[r].theta <= One)
           => Abs(pol[r].delta_bar[e]) < Abs(ghost[r].pre.delta_bar[e])

\* A zero-gradient Update that found a non-zero delta_bar in every element
\* and shrank each of them.
C5_Witness ==
  /\ Updated(1)
  /\ IsZero(LastDelta(1))
  /\ \A e \in DOMAIN pol[1].epsilon :
       /\ ghost[1].pre.delta_bar[e] # 0
       /\ Abs(pol[1].delta_bar[e]) < Abs(ghost[1].pre.delta_bar[e])

\* C6 as stated. A zero-gradient Update leaves epsilon, delta_bar and
\* iterate all unchanged.
C6_AsStated ==
  \A r \in Runs : (Updated(r) /\ IsZero(LastDelta(r))) =>
    /\ pol[r].epsilon = ghost[r].pre.epsilon
    /\ pol[r].delta_bar = ghost[r].pre.delta_bar
    /\ iterate[r] = ghost[r].pre.iterate

\* C6 amended. A zero-gradient Update leaves iterate unchanged and leaves
\* every epsilon that was already at least minStepSize unchanged; delta_bar
\* is not left alone but multiplied by theta.
C6_ZeroGradientFrame ==
  \A r \in Runs : (Updated(r) /\ IsZero(LastDelta(r))) =>
    /\ iterate[r] = ghost[r].pre.iterate
    /\ \A e \in DOMAIN pol[r].epsilon :
         /\ ghost[r].pre.epsilon[e] >= pol[r].minStepSize
              => pol[r].epsilon[e] = ghost[r].pre.epsilon[e]
         /\ pol[r].delta_bar[e] = Mul(ghost[r].pre.delta_bar[e], pol[r].theta)

\* A zero-gradient Update after earlier ones: epsilon was above the floor
\* and differed from its initial value, and delta_bar changed.
C6_Witness ==
  /\ Updated(1)
  /\ NumUpdates(1) > 2
  /\ IsZero(LastDelta(1))
  /\ \E e \in DOMAIN pol[1].epsilon :
       /\ pol[1].epsilon[e] > pol[1].minStepSize
       /\ pol[1].epsilon[e] # ToElem(ghost[1].born.initialStepSize)
       /\ pol[1].delta_bar[e] # ghost[1].pre.delta_bar[e]

\* C10. Ordering inside one Update: the sign test reads the delta_bar the
\* call found; delta_bar becomes theta * delta_bar_old + (1 - theta) *
\* gradient; the step subtracts gradient times the epsilon this same call
\* produced.
C10_Ordering ==
  \A r \in Runs : Updated(r) =>
    \A e \in DOMAIN pol[r].epsilon :
      LET g   == LastDelta(r)[e]
          old == ghost[r].pre
          s   == Sign(Mul(g, old.delta_bar[e]))
          adj == IF s = 1 THEN old.epsilon[e] + pol[r].kappa
                 ELSE IF s = 0 - 1
                   THEN old.epsilon[e] - Mul(pol[r].phi, old.epsilon[e])
                   ELSE old.epsilon[e]
      IN  /\ pol[r].epsilon[e] = Max(adj, pol[r].minStepSize)
          /\ pol[r].delta_bar[e] =
               Mul(pol[r].theta, old.delta_bar[e]) + Mul(One - pol[r].theta, g)
          /\ iterate[r][e] = old.iterate[e] - Mul(pol[r].epsilon[e], g)

\* An Update where the order matters: delta_bar changed sign in the call,
\* epsilon changed in the call, and the gradient was non-zero.
C10_Witness ==
  /\ Updated(1)
  /\ \E e \in DOMAIN pol[1].epsilon :
       /\ LastDelta(1)[e] # 0
       /\ Sign(ghost[1].pre.delta_bar[e]) = 0 - Sign(pol[1].delta_bar[e])
       /\ Sign(pol[1].delta_bar[e]) # 0
       /\ pol[1].epsilon[e] # ghost[1].pre.epsilon[e]
       /\ iterate[1][e] # ghost[1].pre.iterate[e]

(***************************************************************************)
(* Properties of whole runs.                                               *)
(***************************************************************************)
RECURSIVE Replay(_, _, _)
\* The Policy and iterate reached from (p, x) by Update on each gradient of
\* deltas in turn.
Replay(p, x, deltas) ==
  IF deltas = <<>> THEN [policy |-> p, iterate |-> x]
  ELSE Replay(PolicyUpdate(p, 0, Head(deltas)),
              IterateUpdate(p, x, 0, Head(deltas)), Tail(deltas))

\* Run r as it would be had the holder never been modified after the
\* Policy's construction.
Undisturbed(r) ==
  Replay(Policy(ghost[r].born, ghost[r].shape[1], ghost[r].shape[2]),
         ghost[r].x0, ghost[r].deltas)

\* C7. Hyperparameter snapshot: whatever setter calls are interleaved with
\* the Updates of a constructed Policy, its epsilon, delta_bar and iterate
\* are those of the same gradients applied with the holder left as it was at
\* construction; each of two Policies of one holder follows its own
\* gradients only.
C7_Snapshot ==
  \A r \in Runs : pol[r].live =>
    /\ pol[r] = Undisturbed(r).policy
    /\ iterate[r] = Undisturbed(r).iterate

\* Both runs updated: run 1 took a kappa or phi adjustment in an Update
\* called after the holder had been modified, and run 2 was constructed
\* from the modified holder with different members.
C7_Witness ==
  /\ Updated(1) /\ Updated(2)
  /\ ghost[1].seen # ghost[1].born
  /\ pol[1].epsilon # ghost[1].pre.epsilon
  /\ ghost[2].born # ghost[1].born
  /\ <<pol[1].kappa, pol[1].phi, pol[1].theta, pol[1].minStepSize>>
       # <<pol[2].kappa, pol[2].phi, pol[2].theta, pol[2].minStepSize>>
  /\ ghost[1].deltas # ghost[2].deltas

\* The run of the scenario: f(x) = x^2 from x = 10.
BowlFromTen == pol[1].live /\ ghost[1].x0 = Filled(1, 1, 10 * One)

\* C8 as stated. Quadratic bowl from x = 10: after the first few (three)
\* iterations every Update strictly decreases |x|.
C8_AsStated ==
  (BowlFromTen /\ NumUpdates(1) > 3) =>
    Abs(iterate[1][<<1, 1>>]) < Abs(ghost[1].pre.iterate[<<1, 1>>])

\* C8 amended. Quadratic bowl from x = 10: x goes 10, 8, 3.2, 0 with
\* epsilon 0.1, 0.3, 0.5; |x| strictly decreases in each of the first three
\* Updates, x is exactly 0 from the third Update on and stays there, so
\* from the fourth Update on |x_n| = |x_(n-1)| = 0.
C8_Bowl ==
  (BowlFromTen /\ NumUpdates(1) > 0) =>
    LET x    == iterate[1][<<1, 1>>]
        prev == ghost[1].pre.iterate[<<1, 1>>]
        n    == NumUpdates(1)
    IN  /\ Abs(x) <= Abs(prev)
        /\ n <= 3 => Abs(x) < Abs(prev)
        /\ n = 1 => x = 8 * One /\ pol[1].epsilon[<<1, 1>>] = One \div 10
        /\ n = 2 => x = (32 * One) \div 10
                      /\ pol[1].epsilon[<<1, 1>>] = (3 * One) \div 10
        /\ n >= 3 => x = 0 /\ pol[1].epsilon[<<1, 1>>] = One \div 2
        /\ n > 3 => prev = 0

\* The run from x = 10 after all its iterations, at x = 0 with delta_bar
\* still above zero.
C8_Witness ==
  /\ BowlFromTen
  /\ NumUpdates(1) = 10
  /\ iterate[1][<<1, 1>>] = 0
  /\ pol[1].delta_bar[<<1, 1>>] > 0

\* Every gradient of element e in run r had magnitude m.
ConstantMagnitude(r, e, m) ==
  \A i \in 1..NumUpdates(r) : Abs(ghost[r].deltas[i][e]) = m

\* epsilon of OscElem below, and of ConstElem above, the initial step size.
OscOutcome ==
  /\ pol[1].epsilon[OscElem] < ToElem(ghost[1].born.initialStepSize)
  /\ pol[1].epsilon[ConstElem] > ToElem(ghost[1].born.initialStepSize)

====
